---- MODULE Spec2Model ----
(***************************************************************************)
(* Model of spec_creation/autofill_eval_spec.py: the route geometry        *)
(* resolution of an evaluation spec.                                       *)
(*                                                                         *)
(* Three specifications share the module:                                  *)
(*   SpecStitch   get_coords_for_relation, one step per OSM fetch          *)
(*   SpecLeg      validate_and_fill_leg called (repeatedly) on one leg     *)
(*   SpecMain     the four enrichment stages of __main__ over a spec whose *)
(*                nested records live on a heap of shared objects          *)
(*                                                                         *)
(* Coordinates are pairs of integers.  A Python exception is a record      *)
(* [ok |-> FALSE, err |-> <exception class>].                              *)
(***************************************************************************)
EXTENDS Integers, Sequences, FiniteSets, TLC

VARIABLES
    \* ---- get_coords_for_relation (SpecStitch) ----
    relation_details,   \* the member list osm.RelationGet answered
    wl,                 \* get_way_list's result
    on_list,            \* the node ids stitched so far
    coords_list,        \* their [lat, lon] pairs
    prev_last_node,     \* -1, or the last node of the previous way
    calls,              \* one record per get_coords_for_way call made
    spc,                \* position in get_coords_for_relation
    stitch_ret,         \* what get_coords_for_relation returned or raised
    \* ---- validate_and_fill_leg (SpecLeg) ----
    t,                  \* the leg record (a Python dict)
    t_before,           \* the leg as it was when the last call started
    route_coords,       \* the local variable route_coords of the last call
    leg_ret,            \* outcome of the last call
    invoked,            \* the get_route_from_* functions the last call entered
    net,                \* network calls of the last call, per collaborator
    runs,               \* number of calls made on the leg
    osrm_up,            \* whether the routing service answers
    \* ---- __main__ (SpecMain) ----
    heap,               \* the nested dicts, by address
    current_spec, dt_spec, calib_spec, eval_spec, settings_spec,
    mpc,                \* position in __main__
    main_err            \* the exception that ended __main__, if one did

stitchVars == <<relation_details, wl, on_list, coords_list, prev_last_node,
                calls, spc, stitch_ret>>
legVars == <<t, t_before, route_coords, leg_ret, invoked, net, runs, osrm_up>>
mainVars == <<heap, current_spec, dt_spec, calib_spec, eval_spec,
              settings_spec, mpc, main_err>>
vars == <<stitchVars, legVars, mainVars>>

-----------------------------------------------------------------------------
(* Bounds *)

MaxMembers == 3     \* members of a relation
MaxRuns == 2        \* calls of validate_and_fill_leg on the same leg
NumLegs == 2        \* SpecMain: legs of the multi-leg evaluation trip

-----------------------------------------------------------------------------
(* Values *)

\* The nodes the OSM server of SpecStitch holds
Nodes == 10 .. 13

\* The id -> lat and id -> lon mappings a way's node entries carry.
NodeLat(n) == 1 + ((n - 10) \div 5)
NodeLon(n) == n - 9

\* the element of a one-element set
The(S) == CHOOSE x \in S : TRUE

Reverse(s) == [i \in 1 .. Len(s) |-> s[Len(s) + 1 - i]]

Fail(e) == [ok |-> FALSE, err |-> e, val |-> <<>>]
Ok(v) == [ok |-> TRUE, err |-> "", val |-> v]
NoRet == [ok |-> FALSE, err |-> "pending", val |-> <<>>]   \* nothing returned yet

\* list.index(x): the 0-based position of the first occurrence
Index(list, x) ==
    (CHOOSE i \in 1 .. Len(list) :
        list[i] = x /\ \A j \in 1 .. (i - 1) : list[j] # x) - 1

Contains(list, x) == \E i \in 1 .. Len(list) : list[i] = x

\* list[a:b] for 0 <= a, b
Slice(list, a, b) ==
    IF a >= Len(list) \/ b <= a THEN <<>>
    ELSE SubSeq(list, a + 1, IF b > Len(list) THEN Len(list) ELSE b)

coords_swap(lon_lat) == Reverse(lon_lat)

-----------------------------------------------------------------------------
(* Relation Path Stitcher *)

\* Faulty variant of get_way_list: a member of type relation is skipped, not refused.
RECURSIVE WayListSkipping(_, _)
WayListSkipping(member, i) ==
    IF i > Len(member) THEN <<>>
    ELSE (IF member[i].type = "way" /\ member[i].role # "platform"
          THEN <<member[i].ref>> ELSE <<>>) \o WayListSkipping(member, i + 1)
get_way_list_skip_nested(rd) == Ok(WayListSkipping(rd.member, 1))

RECURSIVE WayListFrom(_, _)
WayListFrom(member, i) ==
    IF i > Len(member) THEN Ok(<<>>)
    ELSE IF member[i].type = "relation" THEN Fail("AssertionError")
    ELSE LET rest == WayListFrom(member, i + 1) IN
         IF ~rest.ok THEN rest
         ELSE IF member[i].type = "way" /\ member[i].role # "platform"
              THEN Ok(<<member[i].ref>> \o rest.val)
              ELSE rest

get_way_list(rd) == WayListFrom(rd.member, 1)

\* Faulty variant of get_coords_for_way: the nd list is used as fetched.
get_coords_for_way_as_fetched(way_details, wid, pln) ==
    IF way_details.id # wid THEN Fail("NameError")
    ELSE Ok([on |-> way_details.nd,
             coords |-> [i \in 1 .. Len(way_details.nd) |->
                           <<NodeLat(way_details.nd[i]), NodeLon(way_details.nd[i])>>]])

\* way_details is reduced to its way entry [id, nd]; the node entries are
\* NodeLat and NodeLon.  A failed id assert evaluates its message, which
\* names wl, a name get_coords_for_way does not have.
get_coords_for_way(way_details, wid, pln) ==
    IF way_details.id # wid THEN Fail("NameError")
    ELSE LET nd == way_details.nd
             ordered_node_array ==
                 IF pln # -1 /\ nd[Len(nd)] = pln THEN Reverse(nd) ELSE nd
         IN  Ok([on |-> ordered_node_array,
                 coords |-> [i \in 1 .. Len(ordered_node_array) |->
                               <<NodeLat(ordered_node_array[i]),
                                 NodeLon(ordered_node_array[i])>>]])

\* Faulty variant of StitchWay: a way that starts at prev_last_node does not repeat it.
StitchWayJoined(acc, wid, way_details) ==
    LET w == get_coords_for_way(way_details, wid, acc.prev_last_node)
        skip == IF w.ok /\ w.val.on[1] = acc.prev_last_node THEN 1 ELSE 0
    IN
    IF ~w.ok THEN [acc EXCEPT !.ok = FALSE, !.err = w.err]
    ELSE [ok |-> TRUE, err |-> "",
          on_list |-> acc.on_list \o SubSeq(w.val.on, 1 + skip, Len(w.val.on)),
          coords_list |-> acc.coords_list
                            \o SubSeq(w.val.coords, 1 + skip, Len(w.val.coords)),
          prev_last_node |-> w.val.on[Len(w.val.on)],
          calls |-> Append(acc.calls,
                       [wid |-> wid, prev_last_node |-> acc.prev_last_node,
                        nd |-> way_details.nd, w_on_list |-> w.val.on,
                        w_coords_list |-> w.val.coords])]

\* One iteration of the loop over wl, on the loop's variables.
StitchWay(acc, wid, way_details) ==
    LET w == get_coords_for_way(way_details, wid, acc.prev_last_node) IN
    IF ~w.ok THEN [acc EXCEPT !.ok = FALSE, !.err = w.err]
    ELSE [ok |-> TRUE, err |-> "",
          on_list |-> acc.on_list \o w.val.on,
          coords_list |-> acc.coords_list \o w.val.coords,
          prev_last_node |-> w.val.on[Len(w.val.on)],
          calls |-> Append(acc.calls,
                       [wid |-> wid, prev_last_node |-> acc.prev_last_node,
                        nd |-> way_details.nd, w_on_list |-> w.val.on,
                        w_coords_list |-> w.val.coords])]

StitchStart == [ok |-> TRUE, err |-> "", on_list |-> <<>>, coords_list |-> <<>>,
                prev_last_node |-> -1, calls |-> <<>>]

\* Faulty variant of TrimPath: the slice stops before end_index.
TrimPathExclusive(ons, coords, start_node, end_node) ==
    IF ~Contains(ons, start_node) \/ ~Contains(ons, end_node)
    THEN Fail("ValueError")
    ELSE IF ~(Index(ons, start_node) <= Index(ons, end_node))
         THEN Fail("AssertionError")
         ELSE Ok(Slice(coords, Index(ons, start_node), Index(ons, end_node)))

\* Faulty variant of TrimPath: the range assert is left out.
TrimPathUnchecked(ons, coords, start_node, end_node) ==
    IF ~Contains(ons, start_node) \/ ~Contains(ons, end_node)
    THEN Fail("ValueError")
    ELSE Ok(Slice(coords, Index(ons, start_node), Index(ons, end_node) + 1))

\* The index lookups, the range assert and the slice that end
\* get_coords_for_relation.
TrimPath(ons, coords, start_node, end_node) ==
    IF ~Contains(ons, start_node) \/ ~Contains(ons, end_node)
    THEN Fail("ValueError")
    ELSE LET start_index == Index(ons, start_node)
             end_index == Index(ons, end_node)
         IN  IF ~(start_index <= end_index) THEN Fail("AssertionError")
             ELSE Ok(Slice(coords, start_index, end_index + 1))

-----------------------------------------------------------------------------
(* The collaborators validate_and_fill_leg talks to.  In SpecLeg and        *)
(* SpecMain they are functions of their arguments: the same question gets   *)
(* the same answer every time.                                              *)

None == [py_none |-> TRUE]      \* None where a dict is expected
NoCoords == <<>>                \* None where a coordinate pair is expected

Put(d, k, v) == (k :> v) @@ d   \* d[k] = v
Has(d, k) == k \in DOMAIN d     \* k in d

KnownNodes == 10 .. 14

\* osm.NodeGet(node_id), returned as [lon, lat]
node_to_geojson_coords(node_id) ==
    IF node_id \in KnownNodes
    THEN Ok(<<NodeLon(node_id), NodeLat(node_id)>>)
    ELSE Fail("ApiError")

Member(type, role, ref) == [type |-> type, role |-> role, ref |-> ref]

\* osm.RelationGet(rid)
RelationGet(rid) ==
    CASE rid = 1 -> Ok([member |-> <<Member("node", "stop", 11),
                                      Member("way", "platform", 7),
                                      Member("way", "", 1),
                                      Member("way", "", 2)>>])
      [] rid = 2 -> Ok([member |-> <<Member("way", "", 1),
                                      Member("way", "", 3)>>])
      [] rid = 3 -> Ok([member |-> <<Member("way", "", 1),
                                      Member("relation", "", 2)>>])
      [] rid = 4 -> Ok([member |-> <<Member("way", "", 1),
                                      Member("way", "", 4)>>])
      [] rid = 5 -> Ok([member |-> <<Member("way", "", 1)>>])
      [] OTHER -> Fail("ApiError")

\* osm.WayFull(wid), reduced to the way entry
WayFull(wid) ==
    CASE wid = 1 -> [id |-> 1, nd |-> <<10, 11, 12>>]
      [] wid = 2 -> [id |-> 2, nd |-> <<12, 13, 14>>]
      [] wid = 3 -> [id |-> 3, nd |-> <<14, 13, 12>>]
      [] wid = 7 -> [id |-> 7, nd |-> <<10, 11>>]
      [] OTHER -> [id |-> wid + 1, nd |-> <<10, 11>>]

\* osrm.get_route_points: the route through the given [lon, lat] points,
\* as [lat, lon] pairs
get_route_points(up, mode, waypoint_coords) ==
    IF ~up THEN Fail("RoutingServiceError")
    ELSE IF \E i \in 1 .. Len(waypoint_coords) : waypoint_coords[i] = NoCoords
         THEN Fail("TypeError")
         ELSE Ok([i \in 1 .. Len(waypoint_coords) |->
                    <<waypoint_coords[i][2], waypoint_coords[i][1]>>])

\* pl.PolylineCodec().decode on the encodings of two paths; any other
\* string of the model is cut short and makes the decoder raise
PolylineDecode(encoded) ==
    CASE encoded = "_ibE_seK?_ibE" -> Ok(<<<<1, 2>>, <<1, 3>>>>)
      [] encoded = "_ibE_seK_ibE?" -> Ok(<<<<1, 2>>, <<2, 2>>>>)
      [] OTHER -> Fail("IndexError")

-----------------------------------------------------------------------------
(* validate_and_fill_leg and what it calls.  Each operator returns the      *)
(* outcome together with the dict it mutated and the network calls made.    *)

OsmModes == {"CAR", "WALKING", "BICYCLING", "BUS"}

\* Faulty variant of get_route_coords: the routing service is asked before the mode
\* is looked at.
get_route_coords_call_first(up, mode, waypoint_coords) ==
    LET r == get_route_points(up, mode, waypoint_coords) IN
    IF mode \in OsmModes THEN r @@ [osrm |-> 1]
    ELSE Fail("NotImplementedError") @@ [osrm |-> 1]

get_route_coords(up, mode, waypoint_coords) ==
    IF mode \in OsmModes
    THEN get_route_points(up, mode, waypoint_coords) @@ [osrm |-> 1]
    ELSE Fail("NotImplementedError") @@ [osrm |-> 0]

_fill_coords_from_id(loc) ==
    IF loc = None THEN Ok(NoCoords) @@ [loc |-> loc, osm |-> 0]
    ELSE IF ~Has(loc, "osm_id") THEN Fail("KeyError") @@ [loc |-> loc, osm |-> 0]
    ELSE LET c == node_to_geojson_coords(loc.osm_id) IN
         IF ~c.ok THEN Fail(c.err) @@ [loc |-> loc, osm |-> 1]
         ELSE Ok(c.val) @@ [loc |-> Put(loc, "coordinates", c.val), osm |-> 1]

\* [node_to_geojson_coords(node_id) for node_id in waypoints]
RECURSIVE WaypointCoordsFrom(_, _)
WaypointCoordsFrom(waypoints, i) ==
    IF i > Len(waypoints) THEN Ok(<<>>) @@ [osm |-> 0]
    ELSE LET c == node_to_geojson_coords(waypoints[i]) IN
         IF ~c.ok THEN Fail(c.err) @@ [osm |-> 1]
         ELSE LET rest == WaypointCoordsFrom(waypoints, i + 1) IN
              IF ~rest.ok THEN [rest EXCEPT !.osm = @ + 1]
              ELSE Ok(<<c.val>> \o rest.val) @@ [osm |-> rest.osm + 1]

\* Faulty variant of get_route_from_osrm: the looked-up waypoints are added to the
\* waypoint_coords the leg already has.
get_route_from_osrm_extend(up, leg, start_coords, end_coords) ==
    LET w == IF Has(leg, "route_waypoints")
             THEN WaypointCoordsFrom(leg.route_waypoints, 1)
             ELSE Ok(leg.waypoint_coords) @@ [osm |-> 0]
    IN  IF ~w.ok THEN Fail(w.err) @@ [leg |-> leg, osm |-> w.osm, osrm |-> 0]
        ELSE LET all == IF Has(leg, "route_waypoints") /\ Has(leg, "waypoint_coords")
                        THEN leg.waypoint_coords \o w.val ELSE w.val
                 leg2 == Put(leg, "waypoint_coords", all)
             IN  get_route_coords(up, leg2.mode,
                     <<start_coords>> \o all \o <<end_coords>>)
                   @@ [leg |-> leg2, osm |-> w.osm]

get_route_from_osrm(up, leg, start_coords, end_coords) ==
    LET w == IF Has(leg, "route_waypoints")
             THEN WaypointCoordsFrom(leg.route_waypoints, 1)
             ELSE IF Has(leg, "waypoint_coords")
                  THEN Ok(leg.waypoint_coords) @@ [osm |-> 0]
                  ELSE Fail("UnboundLocalError") @@ [osm |-> 0]
    IN  IF ~w.ok THEN Fail(w.err) @@ [leg |-> leg, osm |-> w.osm, osrm |-> 0]
        ELSE LET leg2 == IF Has(leg, "route_waypoints")
                         THEN Put(leg, "waypoint_coords", w.val) ELSE leg
                 r == get_route_coords(up, leg2.mode,
                          <<start_coords>> \o w.val \o <<end_coords>>)
             IN  r @@ [leg |-> leg2, osm |-> w.osm]

get_route_from_polyline(leg) ==
    PolylineDecode(leg.polyline) @@ [leg |-> leg, osm |-> 0, osrm |-> 0]

RECURSIVE StitchAll(_, _, _)
StitchAll(acc, ways, i) ==
    IF i > Len(ways) \/ ~acc.ok THEN acc
    ELSE StitchAll(StitchWay(acc, ways[i], WayFull(ways[i])), ways, i + 1)

get_coords_for_relation(rid, start_node, end_node) ==
    LET rd == RelationGet(rid) IN
    IF ~rd.ok THEN Fail(rd.err) @@ [osm |-> 1]
    ELSE LET ways == get_way_list(rd.val) IN
         IF ~ways.ok THEN Fail(ways.err) @@ [osm |-> 1]
         ELSE LET acc == StitchAll(StitchStart, ways.val, 1) IN
              IF ~acc.ok THEN Fail(acc.err) @@ [osm |-> 2 + Len(acc.calls)]
              ELSE TrimPath(acc.on_list, acc.coords_list, start_node, end_node)
                     @@ [osm |-> 1 + Len(acc.calls)]

get_route_from_relation(leg) ==
    IF leg.start_loc = None \/ leg.end_loc = None
    THEN Fail("TypeError") @@ [leg |-> leg, osm |-> 0, osrm |-> 0]
    ELSE get_coords_for_relation(leg.relation, leg.start_loc.osm_id,
                                 leg.end_loc.osm_id)
           @@ [leg |-> leg, osrm |-> 0]

\* Faulty variant of LegOutcome: route_coords is on the leg, empty, before the path
\* is known.
LegOutcomeEarlyWrite(ok, err, leg, rc, inv, osm, osrm) ==
    [ok |-> ok, err |-> err,
     leg |-> IF ok THEN leg ELSE Put(leg, "route_coords", <<>>),
     route_coords |-> rc, invoked |-> inv, net |-> [osm |-> osm, osrm |-> osrm]]

\* The outcome of a call: the leg as the call leaves it, the local
\* route_coords, the get_route_from_* functions entered, the network calls.
LegOutcome(ok, err, leg, rc, inv, osm, osrm) ==
    [ok |-> ok, err |-> err, leg |-> leg, route_coords |-> rc,
     invoked |-> inv, net |-> [osm |-> osm, osrm |-> osrm]]

\* Faulty variant of RouteSource: relation is looked for first.
RouteSourceRelationFirst(leg) ==
    IF Has(leg, "relation") THEN "get_route_from_relation"
    ELSE IF Has(leg, "polyline") THEN "get_route_from_polyline"
    ELSE IF Has(leg, "route_waypoints") \/ Has(leg, "waypoint_coords")
         THEN "get_route_from_osrm"
         ELSE "none"

\* The if / elif chain over the leg's route fields: the function it calls.
RouteSource(leg) ==
    IF Has(leg, "route_waypoints") \/ Has(leg, "waypoint_coords")
    THEN "get_route_from_osrm"
    ELSE IF Has(leg, "polyline") THEN "get_route_from_polyline"
    ELSE IF Has(leg, "relation") THEN "get_route_from_relation"
    ELSE "none"

validate_and_fill_leg(up, leg) ==
    LET s == _fill_coords_from_id(leg.start_loc)
        leg1 == [leg EXCEPT !.start_loc = s.loc]
    IN
    IF ~s.ok THEN LegOutcome(FALSE, s.err, leg1, <<>>, <<>>, s.osm, 0)
    ELSE
    LET e == _fill_coords_from_id(leg1.end_loc)
        leg2 == [leg1 EXCEPT !.end_loc = e.loc]
        osm2 == s.osm + e.osm
    IN
    IF ~e.ok THEN LegOutcome(FALSE, e.err, leg2, <<>>, <<>>, osm2, 0)
    ELSE
    LET which == RouteSource(leg2) IN
    IF which = "none"
    THEN LegOutcome(FALSE, "UnboundLocalError", leg2, <<>>, <<>>, osm2, 0)
    ELSE
    LET r == CASE which = "get_route_from_osrm" ->
                    get_route_from_osrm(up, leg2, s.val, e.val)
               [] which = "get_route_from_polyline" ->
                    get_route_from_polyline(leg2)
               [] OTHER -> get_route_from_relation(leg2)
    IN
    IF ~r.ok
    THEN LegOutcome(FALSE, r.err, r.leg, <<>>, <<which>>, osm2 + r.osm, r.osrm)
    ELSE LegOutcome(TRUE, "",
             Put(r.leg, "route_coords",
                 [i \in 1 .. Len(r.val) |-> coords_swap(r.val[i])]),
             r.val, <<which>>, osm2 + r.osm, r.osrm)

-----------------------------------------------------------------------------
(* SpecLeg: validate_and_fill_leg called on one leg, up to MaxRuns times *)

Opt(k, S) == {<<>>} \cup {k :> v : v \in S}

StartLocs == {None, [osm_id |-> 11], [osm_id |-> 13], [osm_id |-> 99],
              [osm_id |-> 11, coordinates |-> <<2, 1>>],
              [osm_id |-> 11, coordinates |-> <<7, 7>>],
              [coordinates |-> <<2, 1>>]}
EndLocs == {None, [osm_id |-> 13], [osm_id |-> 10], [osm_id |-> 99],
            [osm_id |-> 13, coordinates |-> <<4, 1>>],
            [coordinates |-> <<4, 1>>]}
Modes == OsmModes \cup {"TRAIN"}

Legs ==
    {[mode |-> m, start_loc |-> sl, end_loc |-> el] @@ rw @@ wc @@ pl @@ rel @@ rc :
        m \in Modes, sl \in StartLocs, el \in EndLocs,
        rw \in Opt("route_waypoints", {<<12>>, <<12, 99>>}),
        wc \in Opt("waypoint_coords", {<<<<3, 1>>>>}),
        pl \in Opt("polyline", {"_ibE_seK?_ibE", "_ibE"}),
        rel \in Opt("relation", 1 .. 6),
        rc \in Opt("route_coords", {<<<<0, 0>>>>})}

LegInit ==
    /\ t \in Legs
    /\ t_before = t
    /\ route_coords = <<>>
    /\ leg_ret = NoRet
    /\ invoked = <<>>
    /\ net = [osm |-> 0, osrm |-> 0]
    /\ runs = 0
    /\ osrm_up \in BOOLEAN
    \* the rest of the program is not run
    /\ relation_details = <<>> /\ wl = <<>> /\ on_list = <<>> /\ coords_list = <<>>
    /\ prev_last_node = -1 /\ calls = <<>> /\ spc = "idle" /\ stitch_ret = NoRet
    /\ heap = <<>> /\ current_spec = <<>> /\ dt_spec = <<>> /\ calib_spec = <<>>
    /\ eval_spec = <<>> /\ settings_spec = <<>> /\ mpc = "idle"
    /\ main_err = NoRet

\* validate_and_fill_leg(t)
ValidateAndFillLeg ==
    /\ runs < MaxRuns
    /\ \E o \in {validate_and_fill_leg(osrm_up, t)} :
       /\ t' = o.leg
       /\ t_before' = t
       /\ route_coords' = o.route_coords
       /\ leg_ret' = [ok |-> o.ok, err |-> o.err, val |-> <<>>]
       /\ invoked' = o.invoked
       /\ net' = o.net
    /\ runs' = runs + 1
    /\ UNCHANGED osrm_up
    /\ UNCHANGED <<stitchVars, mainVars>>

LegNext == ValidateAndFillLeg

-----------------------------------------------------------------------------
(* SpecStitch: get_coords_for_relation against an OSM server whose answers   *)
(* are chosen when they are fetched.                                        *)

\* A way's nd list: a run of consecutive nodes, stored in either direction.
WayLens == 2 .. 3
WaySeqs ==
    {s \in UNION {[1 .. l -> Nodes] : l \in WayLens} :
        \E d \in {1, -1} : \A i \in 1 .. (Len(s) - 1) : s[i + 1] = s[i] + d}

MemberKinds == [type : {"way", "node", "relation"}, role : {"", "platform"}]

\* Member lists; member i refers to the object with id i.
MemberLists ==
    {[i \in 1 .. Len(k) |-> [type |-> k[i].type, role |-> k[i].role, ref |-> i]] :
        k \in UNION {[1 .. n -> MemberKinds] : n \in 0 .. MaxMembers}}

\* The node ids a caller asks for: the nodes, and 0, which no way holds.
SearchNodes == Nodes \cup {0}

StitchInit ==
    /\ relation_details \in {[member |-> m] : m \in MemberLists}
    /\ wl = <<>>
    /\ on_list = <<>>
    /\ coords_list = <<>>
    /\ prev_last_node = -1
    /\ calls = <<>>
    /\ spc = "get_way_list"
    /\ stitch_ret = NoRet
    \* the rest of the program is not run
    /\ t = <<>> /\ t_before = <<>> /\ route_coords = <<>> /\ leg_ret = NoRet
    /\ invoked = <<>> /\ net = <<>> /\ runs = 0
    /\ osrm_up = TRUE
    /\ heap = <<>> /\ current_spec = <<>> /\ dt_spec = <<>> /\ calib_spec = <<>>
    /\ eval_spec = <<>> /\ settings_spec = <<>> /\ mpc = "idle"
    /\ main_err = NoRet

\* wl = get_way_list(relation_details)
GetWayList ==
    /\ spc = "get_way_list"
    /\ LET r == get_way_list(relation_details) IN
       IF r.ok
       THEN /\ wl' = r.val
            /\ spc' = "loop"
            /\ UNCHANGED stitch_ret
       ELSE /\ stitch_ret' = Fail(r.err)
            /\ spc' = "raised"
            /\ UNCHANGED wl
    /\ UNCHANGED <<relation_details, on_list, coords_list, prev_last_node, calls>>
    /\ UNCHANGED <<legVars, mainVars>>

\* One iteration of "for wid in wl"; the server answers with a way entry
\* whose id is the one asked for, or another one.
FetchWay ==
    /\ spc = "loop"
    /\ Len(calls) < Len(wl)
    /\ LET wid == wl[Len(calls) + 1]
           acc == [StitchStart EXCEPT !.on_list = on_list,
                                      !.coords_list = coords_list,
                                      !.prev_last_node = prev_last_node,
                                      !.calls = calls]
       IN \E nd \in WaySeqs, id \in {wid, wid + 1} :
            LET r == StitchWay(acc, wid, [id |-> id, nd |-> nd]) IN
            IF r.ok
            THEN /\ on_list' = r.on_list
                 /\ coords_list' = r.coords_list
                 /\ prev_last_node' = r.prev_last_node
                 /\ calls' = r.calls
                 /\ UNCHANGED <<spc, stitch_ret>>
            ELSE /\ stitch_ret' = Fail(r.err)
                 /\ spc' = "raised"
                 /\ UNCHANGED <<on_list, coords_list, prev_last_node, calls>>
    /\ UNCHANGED <<relation_details, wl>>
    /\ UNCHANGED <<legVars, mainVars>>

\* The lines after the loop, for the start_node and end_node of the call.
Trim ==
    /\ spc = "loop"
    /\ Len(calls) = Len(wl)
    /\ \E start_node \in SearchNodes, end_node \in SearchNodes :
         LET r == TrimPath(on_list, coords_list, start_node, end_node) IN
         /\ stitch_ret' = r @@ [start_node |-> start_node,
                                 end_node |-> end_node]
         /\ spc' = IF r.ok THEN "returned" ELSE "raised"
    /\ UNCHANGED <<relation_details, wl, on_list, coords_list, prev_last_node,
                   calls>>
    /\ UNCHANGED <<legVars, mainVars>>

StitchNext ==
    \/ GetWayList
    \/ FetchWay
    \/ Trim

-----------------------------------------------------------------------------
(* __main__ and the four stages.  A spec is a dict whose lists hold heap    *)
(* addresses: the dicts nested in it are heap[address].  A stage returns    *)
(* its result dict together with the heap as it leaves it.                  *)

\* Faulty variant of copy_copy: copy.deepcopy, whose result holds copies of the
\* nested dicts at new addresses.
copy_deepcopy(d, h) ==
    LET n == Len(h)
        Moved(list) == [i \in 1 .. Len(list) |-> list[i] + n]
        Lists == {"calibration_tests", "evaluation_trips", "sensing_settings"}
    IN  [d |-> [k \in DOMAIN d |-> IF k \in Lists THEN Moved(d[k]) ELSE d[k]],
         h |-> h \o [i \in 1 .. n |->
                       IF Has(h[i], "legs")
                       THEN Put(h[i], "legs", Moved(h[i].legs)) ELSE h[i]]]

\* copy.copy(d): a new top-level dict holding the same objects
copy_copy(d, h) == [d |-> d, h |-> h]

StageOk(d, h) == [ok |-> TRUE, err |-> "", spec |-> d, heap |-> h]
StageFail(e, h) == [ok |-> FALSE, err |-> e, spec |-> <<>>, heap |-> h]

TzOffset(timezone) == IF timezone = "America/Los_Angeles" THEN -8 ELSE 0
\* arrow.get(fmt_date, tzinfo=timezone).timestamp, fmt_date a day number
Timestamp(fmt_date, timezone) == fmt_date * 86400 - TzOffset(timezone) * 3600

validate_and_fill_datetime(spec, h) ==
    LET c == copy_copy(spec, h)
        timezone == spec.region.timezone
        r1 == Put(c.d, "start_ts", Timestamp(spec.start_fmt_date, timezone))
        r2 == Put(r1, "end_ts", Timestamp(spec.end_fmt_date, timezone))
    IN  StageOk(r2, c.h)

\* the dict sensing_regimes.all.specs.json is loaded into
SensingIds == {"HAHFDC", "MAHFDC"}
sensing_configs(id) == [id |-> id, sensing_config |-> [accuracy |-> id]]

RECURSIVE FillCalibration(_, _, _)
FillCalibration(h, tests, i) ==
    IF i > Len(tests) THEN [ok |-> TRUE, err |-> "", heap |-> h]
    ELSE LET a == tests[i]
             s == _fill_coords_from_id(h[a].start_loc)
             h1 == [h EXCEPT ![a].start_loc = s.loc]
             e == _fill_coords_from_id(h1[a].end_loc)
             h2 == [h1 EXCEPT ![a].end_loc = e.loc]
         IN  IF ~s.ok THEN [ok |-> FALSE, err |-> s.err, heap |-> h1]
             ELSE IF ~e.ok THEN [ok |-> FALSE, err |-> e.err, heap |-> h2]
             ELSE IF h2[a].config.id \notin SensingIds
                  THEN [ok |-> FALSE, err |-> "KeyError", heap |-> h2]
                  ELSE FillCalibration(
                           [h2 EXCEPT ![a].config = sensing_configs(h2[a].config.id)],
                           tests, i + 1)

validate_and_fill_calibration_tests(spec, h) ==
    LET c == copy_copy(spec, h)
        r == FillCalibration(c.h, c.d.calibration_tests, 1)
    IN  IF r.ok THEN StageOk(c.d, r.heap) ELSE StageFail(r.err, r.heap)

\* The legs the loops of validate_and_fill_eval_trips visit, in order.
RECURSIVE LegAddrs(_, _, _)
LegAddrs(h, trips, i) ==
    IF i > Len(trips) THEN <<>>
    ELSE (IF Has(h[trips[i]], "legs") THEN h[trips[i]].legs ELSE <<trips[i]>>)
           \o LegAddrs(h, trips, i + 1)

\* The loop body binds the outcome of each call before going on.
RECURSIVE FillLegs(_, _, _, _)
FillLegs(up, h, legs, i) ==
    IF i > Len(legs) THEN [ok |-> TRUE, err |-> "", heap |-> h, at |-> 0]
    ELSE The({IF ~o.ok
              THEN [ok |-> FALSE, err |-> o.err,
                    heap |-> [h EXCEPT ![legs[i]] = o.leg], at |-> i]
              ELSE FillLegs(up, [h EXCEPT ![legs[i]] = o.leg], legs, i + 1) :
                o \in {validate_and_fill_leg(up, h[legs[i]])}})

validate_and_fill_eval_trips(up, spec, h) ==
    LET c == copy_copy(spec, h)
        r == FillLegs(up, c.h, LegAddrs(c.h, c.d.evaluation_trips, 1), 1)
    IN  IF r.ok THEN StageOk(c.d, r.heap)
        ELSE StageFail(r.err, r.heap) @@ [at |-> r.at]

\* " v/s ".join(compare_list), as the list of its pieces
RECURSIVE Join(_, _)
Join(sep, list) ==
    IF Len(list) = 0 THEN <<>>
    ELSE IF Len(list) = 1 THEN <<list[1]>>
    ELSE <<list[1], sep>> \o Join(sep, Tail(list))

RECURSIVE FillSettings(_, _, _)
FillSettings(h, settings, i) ==
    IF i > Len(settings) THEN [ok |-> TRUE, err |-> "", heap |-> h]
    ELSE LET a == settings[i]
             compare_list == h[a].compare
             h1 == [h EXCEPT ![a] = Put(h[a], "name", Join(" v/s ", compare_list))]
         IN  IF \E k \in 1 .. Len(compare_list) : compare_list[k] \notin SensingIds
             THEN [ok |-> FALSE, err |-> "KeyError", heap |-> h1]
             ELSE FillSettings(
                      [h1 EXCEPT ![a] = Put(h1[a], "sensing_configs",
                           [k \in 1 .. Len(compare_list) |->
                               sensing_configs(compare_list[k])])],
                      settings, i + 1)

validate_and_fill_sensing_settings(spec, h) ==
    LET c == copy_copy(spec, h)
        r == FillSettings(c.h, c.d.sensing_settings, 1)
    IN  IF r.ok THEN StageOk(c.d, r.heap) ELSE StageFail(r.err, r.heap)

-----------------------------------------------------------------------------
(* SpecMain: __main__ on a spec with one calibration test, a unimodal trip, *)
(* a trip of NumLegs legs and one sensing setting.                          *)

CalibrationTests ==
    {[start_loc |-> [osm_id |-> n], end_loc |-> [osm_id |-> 12], config |-> [id |-> c]] :
        n \in {10, 99}, c \in {"HAHFDC", "LALFDC"}}

TripLegs ==
    {[mode |-> "CAR", start_loc |-> [osm_id |-> 11], end_loc |-> [osm_id |-> 13]] @@ f :
        f \in {[route_waypoints |-> <<12>>], [waypoint_coords |-> <<<<3, 1>>>>],
               [polyline |-> "_ibE_seK?_ibE"], [relation |-> 1], [relation |-> 5]}}
      \cup {[mode |-> "TRAIN", start_loc |-> [osm_id |-> 11],
             end_loc |-> [osm_id |-> 13], route_waypoints |-> <<12>>]}

SensingSettings == {[compare |-> <<"HAHFDC", x>>] : x \in {"MAHFDC", "LALFDC"}}

\* heap[1] is the calibration test, heap[2] the unimodal trip, heap[3] the
\* trip with legs heap[4 .. 3 + NumLegs], the last one the sensing setting.
MainInit ==
    /\ \E ct \in CalibrationTests, uni \in TripLegs,
          ls \in [1 .. NumLegs -> TripLegs], ss \in SensingSettings :
         heap = <<ct, uni, [legs |-> [i \in 1 .. NumLegs |-> 3 + i]]>> \o ls \o <<ss>>
    /\ \E tz \in {"America/Los_Angeles", "UTC"} :
         current_spec = [region |-> [timezone |-> tz],
                         start_fmt_date |-> 1, end_fmt_date |-> 2,
                         calibration_tests |-> <<1>>,
                         evaluation_trips |-> <<2, 3>>,
                         sensing_settings |-> <<4 + NumLegs>>]
    /\ dt_spec = <<>> /\ calib_spec = <<>> /\ eval_spec = <<>> /\ settings_spec = <<>>
    /\ mpc = "validate_and_fill_datetime"
    /\ main_err = NoRet
    /\ osrm_up \in BOOLEAN
    \* the rest of the program is not run
    /\ relation_details = <<>> /\ wl = <<>> /\ on_list = <<>> /\ coords_list = <<>>
    /\ prev_last_node = -1 /\ calls = <<>> /\ spc = "idle" /\ stitch_ret = NoRet
    /\ t = <<>> /\ t_before = <<>> /\ route_coords = <<>> /\ leg_ret = NoRet
    /\ invoked = <<>> /\ net = <<>> /\ runs = 0

\* dt_spec = validate_and_fill_datetime(current_spec)
ValidateAndFillDatetime ==
    /\ mpc = "validate_and_fill_datetime"
    /\ \E r \in {validate_and_fill_datetime(current_spec, heap)} :
       /\ heap' = r.heap
       /\ dt_spec' = r.spec
    /\ mpc' = "validate_and_fill_calibration_tests"
    /\ UNCHANGED <<current_spec, calib_spec, eval_spec, settings_spec, main_err>>
    /\ UNCHANGED <<stitchVars, legVars>>

\* calib_spec = validate_and_fill_calibration_tests(dt_spec)
ValidateAndFillCalibrationTests ==
    /\ mpc = "validate_and_fill_calibration_tests"
    /\ \E r \in {validate_and_fill_calibration_tests(dt_spec, heap)} :
       /\ heap' = r.heap
       /\ IF r.ok
          THEN /\ calib_spec' = r.spec
               /\ mpc' = "validate_and_fill_eval_trips"
               /\ UNCHANGED main_err
          ELSE /\ main_err' = [Fail(r.err) EXCEPT !.val = <<mpc>>]
               /\ mpc' = "raised"
               /\ UNCHANGED calib_spec
    /\ UNCHANGED <<current_spec, dt_spec, eval_spec, settings_spec>>
    /\ UNCHANGED <<stitchVars, legVars>>

\* eval_spec = validate_and_fill_eval_trips(calib_spec)
ValidateAndFillEvalTrips ==
    /\ mpc = "validate_and_fill_eval_trips"
    /\ \E r \in {validate_and_fill_eval_trips(osrm_up, calib_spec, heap)} :
       /\ heap' = r.heap
       /\ IF r.ok
          THEN /\ eval_spec' = r.spec
               /\ mpc' = "validate_and_fill_sensing_settings"
               /\ UNCHANGED main_err
          ELSE /\ main_err' = [Fail(r.err) EXCEPT !.val = <<mpc, r.at>>]
               /\ mpc' = "raised"
               /\ UNCHANGED eval_spec
    /\ UNCHANGED <<current_spec, dt_spec, calib_spec, settings_spec>>
    /\ UNCHANGED <<stitchVars, legVars>>

\* settings_spec = validate_and_fill_sensing_settings(eval_spec)
ValidateAndFillSensingSettings ==
    /\ mpc = "validate_and_fill_sensing_settings"
    /\ \E r \in {validate_and_fill_sensing_settings(eval_spec, heap)} :
       /\ heap' = r.heap
       /\ IF r.ok
          THEN /\ settings_spec' = r.spec
               /\ mpc' = "json.dump"
               /\ UNCHANGED main_err
          ELSE /\ main_err' = [Fail(r.err) EXCEPT !.val = <<mpc>>]
               /\ mpc' = "raised"
               /\ UNCHANGED settings_spec
    /\ UNCHANGED <<current_spec, dt_spec, calib_spec, eval_spec>>
    /\ UNCHANGED <<stitchVars, legVars>>

MainNext ==
    \/ ValidateAndFillDatetime
    \/ ValidateAndFillCalibrationTests
    \/ ValidateAndFillEvalTrips
    \/ ValidateAndFillSensingSettings

-----------------------------------------------------------------------------
(* Specifications.  Each one runs one part of the program and leaves the   *)
(* variables of the other parts at rest.                                    *)

SpecStitch == StitchInit /\ [][StitchNext]_vars

SpecLeg == LegInit /\ [][LegNext]_vars

SpecMain == MainInit /\ [][MainNext]_vars

-----------------------------------------------------------------------------
(* Claims on the Relation Path Stitcher (SpecStitch) *)

Last(s) == s[Len(s)]
CoordsOf(ns) == [i \in 1 .. Len(ns) |-> <<NodeLat(ns[i]), NodeLon(ns[i])>>]
Trimmed == "start_node" \in DOMAIN stitch_ret
HasNested ==
    \E i \in 1 .. Len(relation_details.member) :
        relation_details.member[i].type = "relation"
IsSegment(m) == m.type = "way" /\ m.role # "platform"
Segments == SelectSeq(relation_details.member, IsSegment)
\* 1-based positions of the first occurrences in the Master Path
FirstPos(x) == CHOOSE i \in 1 .. Len(on_list) :
                  on_list[i] = x /\ \A j \in 1 .. Len(on_list) : on_list[j] = x => i <= j
BothPresent ==
    /\ Trimmed
    /\ Contains(on_list, stitch_ret.start_node)
    /\ Contains(on_list, stitch_ret.end_node)

\* C2  Orientation invariant: a way whose fetched last node is the last node
\* emitted for the way before it is emitted reversed, nodes and coordinates;
\* its first emitted node is then the last node emitted before it, and the
\* prev_last_node handed to the way after it is the last node of the
\* reversed sequence (the fetched first node).
C2_Orientation ==
    \A i \in 2 .. Len(calls) :
        LET A == calls[i - 1]
            B == calls[i]
        IN  Last(B.nd) = Last(A.w_on_list) =>
              /\ B.w_on_list = Reverse(B.nd)
              /\ B.w_coords_list = Reverse(CoordsOf(B.nd))
              /\ B.w_on_list[1] = Last(A.w_on_list)
              /\ i < Len(calls) => /\ calls[i + 1].prev_last_node = Last(B.w_on_list)
                                   /\ calls[i + 1].prev_last_node = B.nd[1]

\* Three ways were fetched, the second stored against the direction of the first.
C2_Witness ==
    /\ Len(calls) = 3
    /\ Last(calls[2].nd) = Last(calls[1].w_on_list)
    /\ calls[2].w_on_list # calls[2].nd
    /\ spc = "returned"

\* C3  Range invariant: when both nodes occur in the Master Path and the first
\* occurrence of start_node is not after that of end_node, the call returns
\* the Master Path coordinates from the one to the other inclusive, in order:
\* end_index - start_index + 1 pairs, from start_node's to end_node's.
C3_Range ==
    (BothPresent /\ FirstPos(stitch_ret.start_node) <= FirstPos(stitch_ret.end_node)) =>
        LET si == FirstPos(stitch_ret.start_node)
            ei == FirstPos(stitch_ret.end_node)
        IN  /\ spc = "returned"
            /\ stitch_ret.ok
            /\ Len(stitch_ret.val) = ei - si + 1
            /\ \A k \in 1 .. (ei - si + 1) :
                   stitch_ret.val[k] = coords_list[si + k - 1]
            /\ stitch_ret.val[1] = <<NodeLat(stitch_ret.start_node),
                                     NodeLon(stitch_ret.start_node)>>
            /\ Last(stitch_ret.val) = <<NodeLat(stitch_ret.end_node),
                                        NodeLon(stitch_ret.end_node)>>

\* A slice of more than one pair was returned from a path of several ways.
C3_Witness ==
    /\ spc = "returned"
    /\ Len(calls) >= 2
    /\ Len(stitch_ret.val) >= 3
    /\ Len(stitch_ret.val) < Len(coords_list)

\* C4  Trimming raises when start_node or end_node is not in the Master Path
\* (ValueError of list.index), raises when both are but start_node's first
\* index is greater than end_node's (the range assert), and returns a slice
\* only when both are present and in order.
C4_TrimFails ==
    Trimmed =>
        /\ (~Contains(on_list, stitch_ret.start_node)
              \/ ~Contains(on_list, stitch_ret.end_node)) =>
             (spc = "raised" /\ ~stitch_ret.ok /\ stitch_ret.err = "ValueError"
                /\ stitch_ret.val = <<>>)
        /\ (BothPresent
              /\ FirstPos(stitch_ret.start_node) > FirstPos(stitch_ret.end_node)) =>
             (spc = "raised" /\ ~stitch_ret.ok /\ stitch_ret.err = "AssertionError"
                /\ stitch_ret.val = <<>>)
        /\ spc = "returned" =>
             (BothPresent
                /\ FirstPos(stitch_ret.start_node) <= FirstPos(stitch_ret.end_node))

\* Both nodes are on a stitched path of two ways, in the wrong order.
C4_Witness ==
    /\ BothPresent
    /\ Len(calls) >= 2
    /\ FirstPos(stitch_ret.start_node) > FirstPos(stitch_ret.end_node)
    /\ spc = "raised"

\* C9  Member filtering: a member of type relation at any position makes the
\* call raise before any way is fetched; without one, the ways stitched are
\* the members of type way whose role is not platform, in member order.
C9_MemberFilter ==
    /\ (HasNested /\ spc # "get_way_list") =>
          (spc = "raised" /\ ~stitch_ret.ok /\ stitch_ret.val = <<>>
             /\ calls = <<>> /\ on_list = <<>>)
    /\ (~HasNested /\ spc # "get_way_list") =>
          /\ Len(wl) = Len(Segments)
          /\ \A i \in 1 .. Len(wl) : wl[i] = Segments[i].ref
          /\ \A i \in 1 .. Len(calls) : calls[i].wid = Segments[i].ref
          /\ Trimmed => Len(calls) = Len(Segments)

\* A path was returned for a relation with a platform way and two other ways.
C9_Witness ==
    /\ spc = "returned"
    /\ Len(relation_details.member) = 3
    /\ relation_details.member[2].type = "way"
    /\ relation_details.member[2].role = "platform"
    /\ Len(calls) = 2

-----------------------------------------------------------------------------
(* Claims on validate_and_fill_leg (SpecLeg) *)

Called == runs >= 1
\* _fill_coords_from_id(loc) returns for this loc
Fills(loc) == loc = None \/ (Has(loc, "osm_id") /\ loc.osm_id \in KnownNodes)
DispatchReached == Called /\ Fills(t_before.start_loc) /\ Fills(t_before.end_loc)
HasWaypoints(leg) == Has(leg, "route_waypoints") \/ Has(leg, "waypoint_coords")
\* get_route_coords was called: the waypoint node ids, if any, were all found
RouterReached ==
    /\ DispatchReached
    /\ HasWaypoints(t_before)
    /\ Has(t_before, "route_waypoints") =>
          \A i \in 1 .. Len(t_before.route_waypoints) :
              t_before.route_waypoints[i] \in KnownNodes
SameField(a, b, k) == (Has(a, k) <=> Has(b, k)) /\ (Has(a, k) => a[k] = b[k])

\* The leg of the example: relation 1 retains way 1 = [10, 11, 12] and
\* way 2 = [12, 13, 14]; the leg runs from node 11 to node 13.
ExampleLeg ==
    /\ Called /\ leg_ret.ok
    /\ invoked = <<"get_route_from_relation">>
    /\ t.relation = 1
    /\ t.start_loc.osm_id = 11
    /\ t.end_loc.osm_id = 13

\* C1 as stated: three coordinates before the swap, three after it.
C1_Original ==
    ExampleLeg =>
        /\ route_coords = <<<<1, 2>>, <<1, 3>>, <<1, 4>>>>
        /\ t.route_coords = <<<<2, 1>>, <<3, 1>>, <<4, 1>>>>

\* C1 (amended)  For the example relation, start node 11 and end node 13,
\* get_coords_for_relation returns the four coordinates (1,2),(1,3),(1,3),(1,4)
\* and the leg's route_coords is (2,1),(3,1),(3,1),(4,1): the node 12 shared
\* by the two ways is in the Master Path once per way and contributes two
\* coordinates.
C1_Example ==
    ExampleLeg =>
        /\ route_coords = <<<<1, 2>>, <<1, 3>>, <<1, 3>>, <<1, 4>>>>
        /\ t.route_coords = <<<<2, 1>>, <<3, 1>>, <<3, 1>>, <<4, 1>>>>

C1_Witness == ExampleLeg /\ runs = 1 /\ ~Has(t_before, "route_coords")

\* C5  All-or-nothing: a call that raises leaves the leg's route_coords as it
\* was (absent if it was absent); a call that returns has written the whole
\* swapped path.
C5_AllOrNothing ==
    Called =>
        /\ ~leg_ret.ok => SameField(t, t_before, "route_coords")
        /\ leg_ret.ok =>
             /\ Has(t, "route_coords")
             /\ Len(t.route_coords) = Len(route_coords)
             /\ \A i \in 1 .. Len(route_coords) :
                    t.route_coords[i] = <<route_coords[i][2], route_coords[i][1]>>

\* The stitcher raised on a leg that carried a route_coords from before.
C5_Witness ==
    /\ Called /\ ~leg_ret.ok
    /\ invoked = <<"get_route_from_relation">>
    /\ leg_ret.err = "ValueError"
    /\ Has(t_before, "route_coords")
    /\ Has(t.start_loc, "coordinates")

\* C6  Mode gating: a leg whose mode OSRM is not used for makes no call to
\* the routing service; when its waypoints reach get_route_coords the call
\* raises NotImplementedError.
C6_ModeGating ==
    (Called /\ t_before.mode \notin {"CAR", "WALKING", "BICYCLING", "BUS"}) =>
        /\ net.osrm = 0
        /\ RouterReached =>
             (~leg_ret.ok /\ leg_ret.err = "NotImplementedError"
                /\ invoked = <<"get_route_from_osrm">>)

\* A TRAIN leg with route_waypoints node ids got as far as get_route_coords.
C6_Witness ==
    /\ RouterReached
    /\ t_before.mode = "TRAIN"
    /\ Has(t_before, "route_waypoints")
    /\ leg_ret.err = "NotImplementedError"
    /\ net.osm = 3

\* C7  Dispatch: at most one get_route_from_* function is entered per call;
\* once the locations are filled it is the one for waypoints if the leg has
\* route_waypoints or waypoint_coords, else the one for polyline if it has
\* polyline, else the one for relation if it has relation.
C7_Dispatch ==
    Called =>
        /\ Len(invoked) <= 1
        /\ DispatchReached =>
             /\ HasWaypoints(t_before) => invoked = <<"get_route_from_osrm">>
             /\ (~HasWaypoints(t_before) /\ Has(t_before, "polyline")) =>
                   invoked = <<"get_route_from_polyline">>
             /\ (~HasWaypoints(t_before) /\ ~Has(t_before, "polyline")
                   /\ Has(t_before, "relation")) =>
                   invoked = <<"get_route_from_relation">>
        /\ ~DispatchReached => invoked = <<>>

\* A leg with all three kinds of route field was resolved by the router.
C7_Witness ==
    /\ Called /\ leg_ret.ok
    /\ Has(t_before, "waypoint_coords")
    /\ Has(t_before, "polyline")
    /\ Has(t_before, "relation")
    /\ invoked = <<"get_route_from_osrm">>

HasCoords(loc) == loc # None /\ Has(loc, "coordinates")
AlreadyResolved(leg) ==
    HasCoords(leg.start_loc) /\ HasCoords(leg.end_loc) /\ Has(leg, "route_coords")

-----------------------------------------------------------------------------
(* Claims on the enrichment stages (SpecMain) *)

Snapshots == <<current_spec, dt_spec, calib_spec, eval_spec, settings_spec>>
Assigned(spec) == Has(spec, "evaluation_trips")
LegsOf(spec) == LegAddrs(heap, spec.evaluation_trips, 1)
Enriched(leg) ==
    /\ Has(leg, "route_coords")
    /\ Has(leg.start_loc, "coordinates")
    /\ Has(leg.end_loc, "coordinates")
    /\ Has(leg, "route_waypoints") => Has(leg, "waypoint_coords")
EvalTripsReturned == Assigned(eval_spec)
EvalTripsRaised ==
    mpc = "raised" /\ main_err.val[1] = "validate_and_fill_eval_trips"

\* C10  Shallow-copy aliasing: the spec each stage returns holds the nested
\* records of the spec it was given.  Once validate_and_fill_eval_trips has
\* returned, every leg reachable from the input spec and from the earlier
\* stages' results is enriched and equal, field by field, to the leg at the
\* same place of the returned spec, while start_ts and end_ts are keys of
\* the later results only.  When it raises on a leg after the first, the
\* legs before it are enriched in the input spec.
C10_SharedRecords ==
    /\ \A i \in 1 .. Len(Snapshots), j \in 1 .. Len(Snapshots) :
         (Assigned(Snapshots[i]) /\ Assigned(Snapshots[j])) =>
            /\ Snapshots[i].evaluation_trips = Snapshots[j].evaluation_trips
            /\ Snapshots[i].calibration_tests = Snapshots[j].calibration_tests
            /\ Snapshots[i].sensing_settings = Snapshots[j].sensing_settings
            /\ Len(LegsOf(Snapshots[i])) = Len(LegsOf(Snapshots[j]))
            /\ \A k \in 1 .. Len(LegsOf(Snapshots[i])) :
                 LET a == heap[LegsOf(Snapshots[i])[k]]
                     b == heap[LegsOf(Snapshots[j])[k]]
                 IN  /\ SameField(a, b, "route_coords")
                     /\ SameField(a, b, "waypoint_coords")
                     /\ a.start_loc = b.start_loc
                     /\ a.end_loc = b.end_loc
            /\ heap[Snapshots[i].calibration_tests[1]]
                 = heap[Snapshots[j].calibration_tests[1]]
            /\ heap[Snapshots[i].sensing_settings[1]]
                 = heap[Snapshots[j].sensing_settings[1]]
    /\ EvalTripsReturned =>
         \A i \in 1 .. Len(Snapshots) :
            Assigned(Snapshots[i]) =>
               \A k \in 1 .. Len(LegsOf(Snapshots[i])) :
                  Enriched(heap[LegsOf(Snapshots[i])[k]])
    /\ Assigned(dt_spec) =>
         /\ ~Has(current_spec, "start_ts") /\ ~Has(current_spec, "end_ts")
         /\ Has(dt_spec, "start_ts") /\ Has(dt_spec, "end_ts")
    /\ EvalTripsRaised =>
         \A k \in 1 .. (main_err.val[2] - 1) :
            Enriched(heap[LegsOf(current_spec)[k]])

\* validate_and_fill_eval_trips raised on its last leg; the legs before it,
\* one of them given by node-id waypoints, are enriched in current_spec.
C10_Witness ==
    /\ EvalTripsRaised
    /\ main_err.val[2] = 1 + NumLegs
    /\ Has(heap[LegsOf(current_spec)[1]], "route_waypoints")
    /\ Enriched(heap[LegsOf(current_spec)[1]])
    /\ Enriched(heap[LegsOf(current_spec)[2]])

\* All four stages returned.
C10_Done == mpc = "json.dump" /\ Enriched(heap[LegsOf(current_spec)[1]])

====
